---- MODULE Spec2Model ----
(***************************************************************************)
(* fuse_file_access_monitor: the inode tree (fs.rs), the FUSE request      *)
(* handlers that resolve against it, the bounded event channel the read    *)
(* handler sends on, and the GUI side (ui.rs) that mounts, unmounts and    *)
(* drains the channel.                                                     *)
(***************************************************************************)
EXTENDS Integers, Sequences, FiniteSets, TLC

(* ---- bounds of the model ---- *)
\* fs.rs:405 allocates [0u8; 1024*1024]; the model scales the capacity down.
BufCap == 3
\* ui.rs:24 creates the event channel with capacity 10000; scaled down.
ChanCap == 1
\* ui.rs:221 creates the subscription's output channel with capacity 100; scaled down.
OutCap == 1
\* resolved reads (each takes one timestamp) per behaviour of Spec
MaxReads == 2
\* create requests that succeed per mounted session
MaxCreates == 2
\* mounts attempted per behaviour
MaxMounts == 2

VARIABLES
    status,      \* ui.rs State.status: "Unmounted" | "Mounting" | "Unmounting" | "Mounted"
    process,     \* the BackgroundSession held by Status::Mounted (index into handles, 0: none)
    uiPc,        \* where the thread running update is: "idle" | "mounting" | "joining"
    error_text,  \* ui.rs State.error_text (<<>> is None)
    event_log,   \* ui.rs State.event_log
    handles,     \* what became of every BackgroundSession run_mount returned
    outQ,        \* messages some_worker has put on its output stream, not yet handled by update
    workerPc,    \* where some_worker is: "start" | "waitInit" | "recv" | "forward"
    held,        \* the event some_worker received and has not forwarded yet (<<>>: none)
    initRx,      \* the receiver Arc has been handed to some_worker
    chan,        \* the events queued in the tokio mpsc channel
    rxOpen,      \* the receiving side of the event channel exists
    detached,    \* events of sends still blocked in sessions whose handle was dropped
    mounted,     \* the kernel mount of the current session is attached (requests can arrive)
    fsPc,        \* the session thread: "none" | "idle" | "sending" | "panicked"
    directory,   \* fs.rs Directory of the current session: [root, inode_ctr]
    pending,     \* the event of the read handler suspended in blocking_send (<<>>: none)
    reply,       \* the last request the current session took and what it answered
    clock        \* Utc::now(), as a logical clock: the number of timestamps taken

uiVars   == <<status, process, uiPc, error_text, event_log, handles>>
pipeVars == <<outQ, workerPc, held, initRx>>
chanVars == <<chan, rxOpen, detached>>
fsVars   == <<mounted, fsPc, directory, pending, reply, clock>>
vars     == <<uiVars, pipeVars, chanVars, fsVars>>

(* ---- Option<T> as a sequence of at most one element ---- *)
None == <<>>
Some(x) == <<x>>

Min(a, b) == IF a < b THEN a ELSE b

(* ---- the source directories on disk ---- *)
DFile(name, bytes) == [name |-> name, isDir |-> FALSE, bytes |-> bytes, children |-> <<>>]
DDir(name, children) == [name |-> name, isDir |-> TRUE, bytes |-> <<>>, children |-> children]

\* The directory of the spec's end-to-end scenario: a.txt (abcd) and sub/b.txt (empty).
SourceA ==
    DDir("/srv/a", << DFile("a.txt", <<97, 98, 99, 100>>),
                      DDir("sub", << DFile("b.txt", <<>>) >>) >>)

\* A deeper directory: d/e/g, d/h, then a file after the subdirectory.
SourceB ==
    DDir("/srv/b", << DDir("d", << DDir("e", << DFile("g", <<1>>) >>),
                                   DFile("h", <<>>) >>),
                      DFile("A.TXT", <<5, 6>>) >>)

SourceDirs == {"/srv/a", "/srv/b"}

DiskRoot(src) == IF src = "/srv/a" THEN SourceA ELSE SourceB

\* The disk node a path (the source's name, then the names below it) leads to.
RECURSIVE disk_walk(_, _, _)
disk_walk(node, path, i) ==
    IF i > Len(path) THEN Some(node)
    ELSE IF ~node.isDir THEN None
    ELSE LET hits == SelectSeq(node.children, LAMBDA c : c.name = path[i])
         IN  IF hits = <<>> THEN None ELSE disk_walk(hits[1], path, i + 1)

disk_at(path) == disk_walk(DiskRoot(path[1]), path, 2)

\* std::fs::read_dir: the children of a directory, in the order the disk lists them.
read_dir(path) == disk_at(path)[1].children

(* ---- Entry, EntryInfo, Data (fs.rs 220-260) ---- *)
FilePath(path) == [kind |-> "FilePath", path |-> path, data |-> <<>>]
Memory(data) == [kind |-> "Memory", path |-> <<>>, data |-> data]
InfoFile(size) == [kind |-> "File", size |-> size, entries |-> <<>>]
InfoDirectory(entries) == [kind |-> "Directory", size |-> 0, entries |-> entries]
Entry(name, full_path, inode, info) ==
    [name |-> name, full_path |-> full_path, inode |-> inode, info |-> info]

is_dir(info) == info.kind = "Directory"
is_file(info) == info.kind = "File"

(* ---- Tree Builder (fs.rs 60-66, 94-102, 171-216) ---- *)
RECURSIVE build_entries(_, _, _, _, _)
RECURSIVE build_directory(_, _)

\* The loop body of build_directory over the listing `nodes` of `dir`, from its
\* i-th item on: a subdirectory is built first and takes the counter's value
\* after its own contents; every entry advances the counter by one.
build_entries(nodes, i, dir, entries, inode_offset) ==
    IF i > Len(nodes) THEN [entries |-> entries, inode_offset |-> inode_offset]
    ELSE LET node == nodes[i]
             full_path == Append(dir, node.name)
         IN  IF node.isDir
             THEN LET sub == build_directory(full_path, inode_offset)
                  IN  build_entries(nodes, i + 1, dir,
                          Append(entries, Entry(node.name, FilePath(full_path),
                                                sub.inode_offset,
                                                InfoDirectory(sub.entries))),
                          sub.inode_offset + 1)
             ELSE build_entries(nodes, i + 1, dir,
                          Append(entries, Entry(node.name, FilePath(full_path),
                                                inode_offset,
                                                InfoFile(Len(node.bytes)))),
                          inode_offset + 1)

build_directory(dir, inode_offset) ==
    build_entries(read_dir(dir), 1, dir, <<>>, inode_offset)

\* An Entry::new that gives the root the counter's value after the build.
Entry_new_counted(dir, inode_ctr) ==
    LET built == build_directory(<<dir>>, inode_ctr + 1)
    IN  [root |-> Entry("", FilePath(<<dir>>), built.inode_offset, InfoDirectory(built.entries)),
         inode_ctr |-> built.inode_offset + 1]

\* Entry::new: the counter is advanced past the root's inode 1 before the build.
Entry_new(dir, inode_ctr) ==
    LET built == build_directory(<<dir>>, inode_ctr + 1)
    IN  [root |-> Entry("", FilePath(<<dir>>), 1, InfoDirectory(built.entries)),
         inode_ctr |-> built.inode_offset]

\* Directory::new
Directory_new(dir) == Entry_new(dir, 1)

\* The Directory of no session (the filesystem object does not exist).
NoDirectory == [root |-> Entry("", FilePath(<<>>), 0, InfoFile(0)), inode_ctr |-> 0]

(* ---- Inode Index / Resolver (fs.rs 104-169) ---- *)
RECURSIVE find_ino_internal(_, _)
RECURSIVE first_in_subdirs(_, _, _)

\* The filter_map(...).next() of find_ino_internal: the first subdirectory, in
\* order, whose own search finds the inode.
first_in_subdirs(contents, i, ino) ==
    IF i > Len(contents) THEN None
    ELSE LET e == contents[i]
             r == IF is_dir(e.info) THEN find_ino_internal(e.info.entries, ino) ELSE None
         IN  IF r # None THEN r ELSE first_in_subdirs(contents, i + 1, ino)

\* Siblings first, then the subdirectories.
find_ino_internal(contents, ino) ==
    LET hits == SelectSeq(contents, LAMBDA e : e.inode = ino)
    IN  IF hits # <<>> THEN Some(hits[1]) ELSE first_in_subdirs(contents, 1, ino)

\* The read-only resolver: the root answers for ino == 1 whatever it stores.
find_ino(root, ino) ==
    IF ino = 1 THEN Some(root)
    ELSE IF is_dir(root.info) THEN find_ino_internal(root.info.entries, ino)
    ELSE None

\* A search that looks at the entries of one directory and never below them.
find_ino_mut_internal_flat(contents, i, ino, prefix) ==
    IF \E j \in i..Len(contents) : contents[j].inode = ino
    THEN Some(Append(prefix, CHOOSE j \in i..Len(contents) :
                                 /\ contents[j].inode = ino
                                 /\ \A k \in i..(j - 1) : contents[k].inode # ino))
    ELSE None

\* The mutable resolver returns a reference into the tree: the model gives the
\* place of the entry as the sequence of child indices leading to it.
RECURSIVE find_ino_mut_internal(_, _, _, _)
find_ino_mut_internal(contents, i, ino, prefix) ==
    IF i > Len(contents) THEN None
    ELSE LET entry == contents[i]
             here == Append(prefix, i)
         IN  IF entry.inode = ino THEN Some(here)
             ELSE LET r == IF is_dir(entry.info)
                           THEN find_ino_mut_internal(entry.info.entries, 1, ino, here)
                           ELSE None
                  IN  IF r # None THEN r
                      ELSE find_ino_mut_internal(contents, i + 1, ino, prefix)

find_ino_mut(root, ino) ==
    IF ino = root.inode THEN Some(<<>>)
    ELSE IF is_dir(root.info) THEN find_ino_mut_internal(root.info.entries, 1, ino, <<>>)
    ELSE None

\* The entry a place refers to.
RECURSIVE entry_at(_, _, _)
entry_at(entry, place, i) ==
    IF i > Len(place) THEN entry
    ELSE entry_at(entry.info.entries[place[i]], place, i + 1)

\* A push that makes `new` the first child of the directory at `place`.
RECURSIVE push_first_at(_, _, _, _)
push_first_at(entry, place, i, new) ==
    IF i > Len(place)
    THEN [entry EXCEPT !.info.entries = <<new>> \o @]
    ELSE [entry EXCEPT !.info.entries[place[i]] = push_first_at(@, place, i + 1, new)]

\* The tree with `new` pushed onto the children of the directory at `place`.
RECURSIVE push_at(_, _, _, _)
push_at(entry, place, i, new) ==
    IF i > Len(place)
    THEN [entry EXCEPT !.info.entries = Append(@, new)]
    ELSE [entry EXCEPT !.info.entries[place[i]] = push_at(@, place, i + 1, new)]

\* Every entry of the tree, the root first, each directory before its contents.
RECURSIVE all_entries(_)
RECURSIVE all_of(_, _)
all_of(entries, i) ==
    IF i > Len(entries) THEN <<>> ELSE all_entries(entries[i]) \o all_of(entries, i + 1)
all_entries(entry) ==
    <<entry>> \o (IF is_dir(entry.info) THEN all_of(entry.info.entries, 1) ELSE <<>>)

(* ---- Directory::create_file (fs.rs 67-90) ---- *)
\* A create_file that forgets to advance the counter.
create_file_stale_ctr(dir, parent, name) ==
    LET found == find_ino_mut(dir.root, parent)
    IN  IF found = None THEN [ok |-> FALSE, directory |-> dir, entry |-> None]
        ELSE IF is_file(entry_at(dir.root, found[1], 1).info)
        THEN [ok |-> FALSE, directory |-> dir, entry |-> None]
        ELSE LET new == Entry(name, Memory(<<>>), dir.inode_ctr, InfoFile(0))
             IN  [ok |-> TRUE,
                  directory |-> [root |-> push_at(dir.root, found[1], 1, new),
                                 inode_ctr |-> dir.inode_ctr],
                  entry |-> Some(new)]

\* A create_file that puts the new entry in front of the children.
RECURSIVE push_front_at(_, _, _, _)
push_front_at(entry, place, i, new) ==
    IF i > Len(place)
    THEN [entry EXCEPT !.info.entries = <<new>> \o @]
    ELSE [entry EXCEPT !.info.entries[place[i]] = push_front_at(@, place, i + 1, new)]

create_file_front(dir, parent, name) ==
    LET found == find_ino_mut(dir.root, parent)
    IN  IF found = None THEN [ok |-> FALSE, directory |-> dir, entry |-> None]
        ELSE IF is_file(entry_at(dir.root, found[1], 1).info)
        THEN [ok |-> FALSE, directory |-> dir, entry |-> None]
        ELSE LET new == Entry(name, Memory(<<>>), dir.inode_ctr, InfoFile(0))
             IN  [ok |-> TRUE,
                  directory |-> [root |-> push_front_at(dir.root, found[1], 1, new),
                                 inode_ctr |-> dir.inode_ctr + 1],
                  entry |-> Some(new)]

\* A create_file that takes a File for a parent: it reports the new entry and
\* advances the counter although there is no child list to push onto.
create_file_any_parent(dir, parent, name) ==
    LET found == find_ino_mut(dir.root, parent)
    IN  IF found = None THEN [ok |-> FALSE, directory |-> dir, entry |-> None]
        ELSE LET new == Entry(name, Memory(<<>>), dir.inode_ctr, InfoFile(0))
             IN  [ok |-> TRUE,
                  directory |->
                      [root |-> IF is_file(entry_at(dir.root, found[1], 1).info)
                                THEN dir.root
                                ELSE push_at(dir.root, found[1], 1, new),
                       inode_ctr |-> dir.inode_ctr + 1],
                  entry |-> Some(new)]

create_file(dir, parent, name) ==
    LET found == find_ino_mut(dir.root, parent)
    IN  IF found = None THEN [ok |-> FALSE, directory |-> dir, entry |-> None]
        ELSE IF is_file(entry_at(dir.root, found[1], 1).info)
        THEN [ok |-> FALSE, directory |-> dir, entry |-> None]
        ELSE LET new == Entry(name, Memory(<<>>), dir.inode_ctr, InfoFile(0))
             IN  [ok |-> TRUE,
                  directory |-> [root |-> push_at(dir.root, found[1], 1, new),
                                 inode_ctr |-> dir.inode_ctr + 1],
                  entry |-> Some(new)]

(* ---- Data Accessor (fs.rs 226-246) ---- *)
\* A positional read that forgets the offset.
read_at_from_start(bytes, len, offset) ==
    SubSeq(bytes, 1, Min(len, Len(bytes)))

\* FileExt::read_at into a buffer of `len` bytes: the bytes of the file from
\* `offset` on, as many as the buffer takes; none at or past the end.
read_at(bytes, len, offset) ==
    IF offset >= Len(bytes) THEN <<>>
    ELSE SubSeq(bytes, offset + 1, Min(offset + len, Len(bytes)))

\* Data::read with a buffer of `len` bytes. `fault`: the backing file cannot be
\* opened or read at this moment (removed, unreadable). The result is
\* Ok(bytes), Err, or a panic (the slice index of the in-memory arm).
Data_read(full_path, len, offset, fault) ==
    IF full_path.kind = "FilePath"
    THEN LET node == disk_at(full_path.path)
         IN  IF fault \/ node = None THEN [res |-> "Err", bytes |-> <<>>]
             ELSE IF node[1].isDir THEN [res |-> "Err", bytes |-> <<>>]
             ELSE [res |-> "Ok", bytes |-> read_at(node[1].bytes, len, offset)]
    ELSE IF offset + len > Len(full_path.data)
         THEN [res |-> "Panic", bytes |-> <<>>]
         ELSE [res |-> "Ok", bytes |-> SubSeq(full_path.data, offset + 1, offset + len)]

(* ---- Entry::get_fileattr (fs.rs 262-305) ---- *)
get_fileattr(entry) ==
    IF is_file(entry.info)
    THEN [ino |-> entry.inode, size |-> entry.info.size, blocks |-> 1,
          kind |-> "RegularFile", nlink |-> 1, uid |-> 333, gid |-> 333]
    ELSE [ino |-> entry.inode, size |-> 0, blocks |-> 0,
          kind |-> "Directory", nlink |-> 2, uid |-> 1000, gid |-> 1000]

(* ---- Event (fs.rs 15-45) and the event channel ---- *)
ReadEvent(time, file, offset, size) ==
    [time |-> time, file |-> file, offset |-> offset, size |-> size]

\* A channel that always has room.
has_capacity_unbounded(q) == TRUE

\* tokio mpsc: a send finds room while fewer than the capacity are queued.
has_capacity(q) == Len(q) < ChanCap

\* A send that does not notice that the receiver is gone.
blocking_send_ignoring_close(q, open) ==
    IF has_capacity(q) THEN "queued" ELSE "suspended"

\* Sender::blocking_send at the moment it is called: Err when the receiver is
\* gone, queued at once when there is room, suspended otherwise.
blocking_send(q, open) ==
    IF ~open THEN "closed" ELSE IF has_capacity(q) THEN "queued" ELSE "suspended"

\* Receiver::recv on a non-empty queue: the oldest event, and what stays queued.
recv(q) == [event |-> Head(q), rest |-> Tail(q)]

(* ---- the request the session thread took last, and its answer ---- *)
Answer(op, ino, name, offset, size, res, errno, data, attr) ==
    [op |-> op, ino |-> ino, name |-> name, offset |-> offset, size |-> size,
     res |-> res, errno |-> errno, data |-> data, attr |-> attr]

NoAnswer == Answer("none", 0, "", 0, 0, "none", "", <<>>, None)

\* A file name that is not valid UTF-8: OsStr::to_str gives None for it.
NonUtf8 == "<non-utf8>"
to_str(name) == IF name = NonUtf8 THEN None ELSE Some(name)

(* ---- FileAccessTrackingFs::read (fs.rs 390-429) ---- *)
\* What read does with a resolved entry, up to the send: the slice of the
\* buffer (a panic when size exceeds the buffer), the Data Accessor's result
\* turned into the reply, and the event built after the match.
\* A read that builds its event in the Ok arm only.
read_entry_quiet_error(entry, offset, size, fault, time) ==
    IF size > BufCap
    THEN [res |-> "panic", errno |-> "", data |-> <<>>, event |-> None]
    ELSE LET r == Data_read(entry.full_path, size, offset, fault)
             event == ReadEvent(time, entry.name, offset, size)
         IN  IF r.res = "Panic"
             THEN [res |-> "panic", errno |-> "", data |-> <<>>, event |-> None]
             ELSE IF r.res = "Ok"
             THEN [res |-> "data", errno |-> "", data |-> r.bytes, event |-> Some(event)]
             ELSE [res |-> "error", errno |-> "ENOENT", data |-> <<>>, event |-> None]

read_entry(entry, offset, size, fault, time) ==
    IF size > BufCap
    THEN [res |-> "panic", errno |-> "", data |-> <<>>, event |-> None]
    ELSE LET r == Data_read(entry.full_path, size, offset, fault)
             event == ReadEvent(time, entry.name, offset, size)
         IN  IF r.res = "Panic"
             THEN [res |-> "panic", errno |-> "", data |-> <<>>, event |-> None]
             ELSE IF r.res = "Ok"
             THEN [res |-> "data", errno |-> "", data |-> r.bytes, event |-> Some(event)]
             ELSE [res |-> "error", errno |-> "ENOENT", data |-> <<>>,
                   event |-> Some(event)]

read(ino, offset, size, fault) ==
    /\ mounted
    /\ fsPc = "idle"
    /\ LET found == find_ino(directory.root, ino)
       IN  IF found = None
           THEN /\ reply' = Answer("read", ino, "", offset, size, "error", "ENOENT",
                                   <<>>, None)
                /\ UNCHANGED <<mounted, fsPc, directory, pending, clock, chanVars>>
           ELSE LET out == read_entry(found[1], offset, size, fault, clock)
                    how == blocking_send(chan, rxOpen)
                IN  /\ clock' = clock + 1
                    /\ reply' = Answer("read", ino, "", offset, size, out.res,
                                       out.errno, out.data, None)
                    /\ UNCHANGED <<mounted, directory, rxOpen, detached>>
                    /\ IF out.res = "panic"
                       THEN fsPc' = "panicked" /\ UNCHANGED <<pending, chan>>
                       ELSE IF out.event = None
                       THEN UNCHANGED <<fsPc, pending, chan>>
                       ELSE IF how = "queued"
                       THEN /\ chan' = Append(chan, out.event[1])
                            /\ UNCHANGED <<fsPc, pending>>
                       ELSE IF how = "suspended"
                       THEN /\ fsPc' = "sending"
                            /\ pending' = out.event
                            /\ UNCHANGED chan
                       ELSE UNCHANGED <<fsPc, pending, chan>>
    /\ UNCHANGED <<uiVars, pipeVars>>

\* The suspended blocking_send returns: the event is queued once there is room
\* (or the send fails because the receiver has gone).
SendComplete ==
    /\ fsPc = "sending"
    /\ blocking_send(chan, rxOpen) # "suspended"
    /\ chan' = IF rxOpen THEN Append(chan, pending[1]) ELSE chan
    /\ pending' = None
    /\ fsPc' = "idle"
    /\ UNCHANGED <<mounted, directory, reply, clock, rxOpen, detached, uiVars, pipeVars>>

\* The same, in the thread of a session whose handle was dropped.
DetachedSend ==
    \E e \in detached :
        /\ blocking_send(chan, rxOpen) # "suspended"
        /\ chan' = IF rxOpen THEN Append(chan, e) ELSE chan
        /\ detached' = detached \ {e}
        /\ UNCHANGED <<rxOpen, fsVars, uiVars, pipeVars>>

(* ---- FileAccessTrackingFs::create (fs.rs 444-470) ---- *)
create(parent, name) ==
    /\ mounted
    /\ fsPc = "idle"
    /\ IF to_str(name) = None
       THEN /\ reply' = Answer("create", parent, name, 0, 0, "error", "ENOENT", <<>>, None)
            /\ UNCHANGED directory
       ELSE LET r == create_file(directory, parent, to_str(name)[1])
            IN  IF r.ok
                THEN /\ directory' = r.directory
                     /\ reply' = Answer("create", parent, name, 0, 0, "created", "",
                                        <<>>, Some(get_fileattr(r.entry[1])))
                ELSE /\ reply' = Answer("create", parent, name, 0, 0, "error",
                                        "ENOENT", <<>>, None)
                     /\ UNCHANGED directory
    /\ UNCHANGED <<mounted, fsPc, pending, clock, chanVars, uiVars, pipeVars>>

(* ---- FileAccessTrackingFs::write (fs.rs 472-485) ---- *)
\* The tree with the recorded size of the file at `place` set to `size`.
RECURSIVE set_size_at(_, _, _, _)
set_size_at(entry, place, i, size) ==
    IF i > Len(place)
    THEN [entry EXCEPT !.info.size = size]
    ELSE [entry EXCEPT !.info.entries[place[i]] = set_size_at(@, place, i + 1, size)]

\* A write that records the end of the written range as the file's size.
write_stored(ino, offset, data) ==
    /\ mounted
    /\ fsPc = "idle"
    /\ reply' = Answer("write", ino, "", offset, Len(data), "unanswered", "", data, None)
    /\ LET found == find_ino_mut(directory.root, ino)
       IN  IF found # None /\ is_file(entry_at(directory.root, found[1], 1).info)
           THEN directory' = [directory EXCEPT
                                 !.root = set_size_at(@, found[1], 1, offset + Len(data))]
           ELSE UNCHANGED directory
    /\ UNCHANGED <<mounted, fsPc, pending, clock, chanVars, uiVars, pipeVars>>

\* The body of write is empty: nothing is looked up, nothing is stored, and no
\* method of the reply object is called before it goes out of scope.
write(ino, offset, data) ==
    /\ mounted
    /\ fsPc = "idle"
    /\ reply' = Answer("write", ino, "", offset, Len(data), "unanswered", "", data, None)
    /\ UNCHANGED <<mounted, fsPc, directory, pending, clock, chanVars, uiVars, pipeVars>>

(* ---- Entry::find_name (fs.rs 130-137), FileAccessTrackingFs::lookup (fs.rs 360-377) ---- *)
\* str::to_lowercase, on the names that occur: the two with capital letters
\* map to their lower-case spelling, the others have none to change.
to_lowercase(name) ==
    CASE name = "A.TXT" -> "a.txt"
      [] name = "NEW" -> "new"
      [] OTHER -> name

\* A find_name that compares the names as they are spelled.
find_name_exact(entry, name) ==
    IF is_dir(entry.info)
    THEN LET hits == SelectSeq(entry.info.entries, LAMBDA e : e.name = name)
         IN  IF hits = <<>> THEN None ELSE Some(hits[1])
    ELSE None

\* A find_name that gives the last child that matches.
find_name_last(entry, name) ==
    IF is_dir(entry.info)
    THEN LET hits == SelectSeq(entry.info.entries,
                               LAMBDA e : to_lowercase(e.name) = to_lowercase(name))
         IN  IF hits = <<>> THEN None ELSE Some(hits[Len(hits)])
    ELSE None

find_name(entry, name) ==
    IF is_dir(entry.info)
    THEN LET hits == SelectSeq(entry.info.entries,
                               LAMBDA e : to_lowercase(e.name) = to_lowercase(name))
         IN  IF hits = <<>> THEN None ELSE Some(hits[1])
    ELSE None

lookup(parent, name) ==
    /\ mounted
    /\ fsPc = "idle"
    /\ LET found == IF to_str(name) = None THEN None
                    ELSE LET p == find_ino(directory.root, parent)
                         IN  IF p = None THEN None ELSE find_name(p[1], to_str(name)[1])
       IN  reply' = IF found # None
                    THEN Answer("lookup", parent, name, 0, 0, "entry", "", <<>>,
                                Some(get_fileattr(found[1])))
                    ELSE Answer("lookup", parent, name, 0, 0, "error", "ENOENT", <<>>, None)
    /\ UNCHANGED <<mounted, fsPc, directory, pending, clock, chanVars, uiVars, pipeVars>>

(* ---- FileAccessTrackingFs::getattr (fs.rs 379-388), release (fs.rs 431-442) ---- *)
\* A getattr that reports the access as an event when the channel has room.
getattr_logged(ino) ==
    /\ mounted
    /\ fsPc = "idle"
    /\ LET found == find_ino(directory.root, ino)
       IN  /\ reply' = IF found # None
                       THEN Answer("getattr", ino, "", 0, 0, "attr", "", <<>>,
                                   Some(get_fileattr(found[1])))
                       ELSE Answer("getattr", ino, "", 0, 0, "error", "ENOENT", <<>>, None)
           /\ chan' = IF found # None /\ blocking_send(chan, rxOpen) = "queued"
                      THEN Append(chan, ReadEvent(clock, found[1].name, 0, 0))
                      ELSE chan
    /\ UNCHANGED <<mounted, fsPc, directory, pending, clock, rxOpen, detached, uiVars,
                   pipeVars>>

getattr(ino) ==
    /\ mounted
    /\ fsPc = "idle"
    /\ LET found == find_ino(directory.root, ino)
       IN  reply' = IF found # None
                    THEN Answer("getattr", ino, "", 0, 0, "attr", "", <<>>,
                                Some(get_fileattr(found[1])))
                    ELSE Answer("getattr", ino, "", 0, 0, "error", "ENOENT", <<>>, None)
    /\ UNCHANGED <<mounted, fsPc, directory, pending, clock, chanVars, uiVars, pipeVars>>

\* release answers ok whatever the inode is.
release(ino) ==
    /\ mounted
    /\ fsPc = "idle"
    /\ reply' = Answer("release", ino, "", 0, 0, "ok", "", <<>>, None)
    /\ UNCHANGED <<mounted, fsPc, directory, pending, clock, chanVars, uiVars, pipeVars>>

(* ---- FileAccessTrackingFs::readdir (fs.rs 487-529) ---- *)
FileType(info) == IF is_dir(info) THEN "Directory" ELSE "RegularFile"

\* The vector the handler lists: ".", "..", both with inode 1, then the children.
readdir_entries(dir_entries) ==
    << [ino |-> 1, kind |-> "Directory", name |-> "."],
       [ino |-> 1, kind |-> "Directory", name |-> ".."] >>
    \o [i \in 1..Len(dir_entries) |->
           [ino |-> dir_entries[i].inode, kind |-> FileType(dir_entries[i].info),
            name |-> dir_entries[i].name]]

\* A skip that passes one item more than it is asked to.
skip_one_more(offset) == IF offset < 0 THEN 2^64 + offset ELSE offset + 1

\* `offset as usize`, the number of items skip() passes over: a negative i64
\* wraps to a number larger than any listing.
skip(offset) == IF offset < 0 THEN 2^64 + offset ELSE offset

\* A loop that tags the item it adds with the item's own index.
RECURSIVE readdir_fill_own_index(_, _, _, _)
readdir_fill_own_index(entries, i, items, room) ==
    IF i >= Len(entries) THEN items
    ELSE IF Len(items) >= room THEN items
    ELSE readdir_fill_own_index(entries, i + 1,
                      Append(items, [ino |-> entries[i + 1].ino, offset |-> i,
                                     kind |-> entries[i + 1].kind,
                                     name |-> entries[i + 1].name]),
                      room)

\* The loop over the listing from its i-th item (counted from 0) on:
\* reply.add takes the item, tagged with i + 1, unless the sink is full, and
\* then the loop ends. `room` is the number of items the sink takes.
RECURSIVE readdir_fill(_, _, _, _)
readdir_fill(entries, i, items, room) ==
    IF i >= Len(entries) THEN items
    ELSE IF Len(items) >= room THEN items
    ELSE readdir_fill(entries, i + 1,
                      Append(items, [ino |-> entries[i + 1].ino, offset |-> i + 1,
                                     kind |-> entries[i + 1].kind,
                                     name |-> entries[i + 1].name]),
                      room)

readdir(ino, offset, room) ==
    /\ mounted
    /\ fsPc = "idle"
    /\ LET found == find_ino(directory.root, ino)
       IN  reply' = IF found # None /\ is_dir(found[1].info)
                    THEN Answer("readdir", ino, "", offset, room, "ok", "",
                                readdir_fill(readdir_entries(found[1].info.entries),
                                             skip(offset), <<>>, room),
                                None)
                    ELSE Answer("readdir", ino, "", offset, room, "error", "ENOENT",
                                <<>>, None)
    /\ UNCHANGED <<mounted, fsPc, directory, pending, clock, chanVars, uiVars, pipeVars>>

(* ---- AccessTrackingFsGui::update (ui.rs 96-158), run_mount (lib.rs 8-12) ---- *)
\* MountPressed up to the call of run_mount. Assigning Status::Mounting drops
\* the session a Mounted status held: it is unmounted and its thread is left
\* to itself, a send it is suspended in included.
MountPressed(mountpoint_valid, source_valid) ==
    /\ uiPc = "idle"
    /\ IF mountpoint_valid /\ source_valid
       THEN /\ status' = "Mounting"
            /\ uiPc' = "mounting"
            /\ process' = 0
            /\ UNCHANGED error_text
            /\ IF status = "Mounted"
               THEN /\ handles' = [handles EXCEPT ![process] = "dropped"]
                    /\ mounted' = FALSE
                    /\ fsPc' = "none"
                    /\ directory' = NoDirectory
                    /\ reply' = NoAnswer
                    /\ pending' = None
                    /\ detached' = IF fsPc = "sending" THEN detached \cup {pending[1]}
                                   ELSE detached
               ELSE UNCHANGED <<handles, mounted, fsPc, directory, reply, pending,
                                detached>>
       ELSE /\ error_text' = IF ~source_valid THEN Some("Source is not a directory.")
                             ELSE Some("Mountpoint is not a directory.")
            /\ UNCHANGED <<status, uiPc, process, handles, mounted, fsPc, directory,
                           reply, pending, detached>>
    /\ UNCHANGED <<event_log, clock, chan, rxOpen, pipeVars>>

\* run_mount returns: the tree is built from the source, then the session is
\* spawned; `ok` is whether spawn_mount2 succeeded.
MountReturn(source, ok) ==
    /\ uiPc = "mounting"
    /\ uiPc' = "idle"
    /\ IF ok
       THEN /\ status' = "Mounted"
            /\ handles' = Append(handles, "held")
            /\ process' = Len(handles) + 1
            /\ directory' = Directory_new(source)
            /\ fsPc' = "idle"
            /\ mounted' = TRUE
            /\ UNCHANGED error_text
       ELSE /\ status' = "Unmounted"
            /\ error_text' = Some("mount failed")
            /\ UNCHANGED <<handles, process, directory, fsPc, mounted>>
    /\ UNCHANGED <<event_log, pending, reply, clock, chanVars, pipeVars>>

\* An UnmountPressed that leaves the status it swapped in when there is no
\* session to join.
UnmountPressed_stays_unmounting ==
    /\ uiPc = "idle"
    /\ IF status = "Mounted"
       THEN /\ status' = "Unmounting"
            /\ uiPc' = "joining"
            /\ mounted' = FALSE
            /\ UNCHANGED error_text
       ELSE /\ status' = "Unmounting"
            /\ error_text' = Some("Somehow unmount was pressed")
            /\ UNCHANGED <<uiPc, mounted>>
    /\ UNCHANGED <<process, event_log, handles, fsPc, directory, pending, reply, clock,
                   chanVars, pipeVars>>

\* UnmountPressed up to the join: the status is swapped for Unmounting; a
\* Mounted status gives its session, whose mount is dropped before the join.
UnmountPressed ==
    /\ uiPc = "idle"
    /\ IF status = "Mounted"
       THEN /\ status' = "Unmounting"
            /\ uiPc' = "joining"
            /\ mounted' = FALSE
            /\ UNCHANGED error_text
       ELSE /\ status' = "Unmounted"
            /\ error_text' = Some("Somehow unmount was pressed")
            /\ UNCHANGED <<uiPc, mounted>>
    /\ UNCHANGED <<process, event_log, handles, fsPc, directory, pending, reply, clock,
                   chanVars, pipeVars>>

\* process.join() returns once the session thread has ended: it ends when it
\* is between requests and finds the mount gone, or when it has panicked.
JoinReturn ==
    /\ uiPc = "joining"
    /\ fsPc \in {"idle", "panicked"}
    /\ handles' = [handles EXCEPT ![process] = "joined"]
    /\ process' = 0
    /\ status' = "Unmounted"
    /\ uiPc' = "idle"
    /\ fsPc' = "none"
    /\ directory' = NoDirectory
    /\ reply' = NoAnswer
    /\ UNCHANGED <<error_text, event_log, mounted, pending, clock, chanVars, pipeVars>>

\* A log that takes the new event in front.
log_push_front(log, event) == <<event>> \o log

\* Vec::push of the event log.
log_push(log, event) == Append(log, event)

\* Message::ReceivedEvent
ReceivedEvent ==
    /\ uiPc = "idle"
    /\ outQ # <<>>
    /\ Head(outQ).type = "ReceivedEvent"
    /\ event_log' = log_push(event_log, Head(outQ).event)
    /\ outQ' = Tail(outQ)
    /\ UNCHANGED <<status, process, uiPc, error_text, handles, workerPc, held, initRx,
                   chanVars, fsVars>>

\* Message::InitEventCommunication: the receiver is handed to the worker.
InitEventCommunication ==
    /\ uiPc = "idle"
    /\ outQ # <<>>
    /\ Head(outQ).type = "InitEventCommunication"
    /\ initRx' = TRUE
    /\ outQ' = Tail(outQ)
    /\ UNCHANGED <<uiVars, workerPc, held, chanVars, fsVars>>

(* ---- AccessTrackingFsGui::some_worker (ui.rs 220-244) ---- *)
\* The receiving side of the event channel goes away: the owner of the
\* receiver and the worker that holds it drop it. The channel is closed, the
\* events queued in it and the one the worker held are discarded with it.
ReceiverDropped ==
    /\ rxOpen
    /\ uiPc = "idle"
    /\ rxOpen' = FALSE
    /\ chan' = <<>>
    /\ held' = None
    /\ workerPc' = "stopped"
    /\ UNCHANGED <<outQ, initRx, detached, uiVars, fsVars>>

NoEvent == ReadEvent(0, "", 0, 0)

WorkerStart ==
    /\ workerPc = "start"
    /\ Len(outQ) < OutCap
    /\ outQ' = Append(outQ, [type |-> "InitEventCommunication", event |-> NoEvent])
    /\ workerPc' = "waitInit"
    /\ UNCHANGED <<held, initRx, uiVars, chanVars, fsVars>>

WorkerLock ==
    /\ workerPc = "waitInit"
    /\ initRx
    /\ workerPc' = "recv"
    /\ UNCHANGED <<outQ, held, initRx, uiVars, chanVars, fsVars>>

WorkerRecv ==
    /\ workerPc = "recv"
    /\ chan # <<>>
    /\ held' = Some(recv(chan).event)
    /\ chan' = recv(chan).rest
    /\ workerPc' = "forward"
    /\ UNCHANGED <<outQ, initRx, rxOpen, detached, uiVars, fsVars>>

WorkerForward ==
    /\ workerPc = "forward"
    /\ Len(outQ) < OutCap
    /\ outQ' = Append(outQ, [type |-> "ReceivedEvent", event |-> held[1]])
    /\ held' = None
    /\ workerPc' = "recv"
    /\ UNCHANGED <<initRx, uiVars, chanVars, fsVars>>

(* ---- the system ---- *)
Init ==
    /\ status = "Unmounted"
    /\ process = 0
    /\ uiPc = "idle"
    /\ error_text = None
    /\ event_log = <<>>
    /\ handles = <<>>
    /\ outQ = <<>>
    /\ workerPc = "start"
    /\ held = None
    /\ initRx = FALSE
    /\ chan = <<>>
    /\ rxOpen = TRUE
    /\ detached = {}
    /\ mounted = FALSE
    /\ fsPc = "none"
    /\ directory = NoDirectory
    /\ pending = None
    /\ reply = NoAnswer
    /\ clock = 0

\* The (offset, size) pairs the kernel asks for: a read inside the file, a
\* short read, a read at the end, an empty read, a read larger than the buffer.
ReadArgs == {<<0, 2>>, <<2, BufCap>>, <<4, 2>>, <<0, 0>>, <<0, BufCap + 1>>}

CreateNames == {"new", NonUtf8}

\* The entries create has added to the tree.
created(dir) == Len(SelectSeq(all_entries(dir.root), LAMBDA e : e.full_path.kind = "Memory"))

ReadRequest(inos, args, maxReads) ==
    /\ mounted
    /\ clock < maxReads
    /\ \E ino \in inos, a \in args, fault \in BOOLEAN :
           read(ino, a[1], a[2], fault)

CreateRequest(parents, names, maxCreates) ==
    /\ mounted
    /\ created(directory) < maxCreates
    /\ \E parent \in parents, name \in names : create(parent, name)

Mount(valid, maxMounts) ==
    /\ Len(handles) < maxMounts
    /\ \E mv \in valid, sv \in valid : MountPressed(mv, sv)

MountDone(sources, oks) ==
    \E source \in sources, ok \in oks : MountReturn(source, ok)

\* Every inode an entry has, and the counter itself, which no entry has.
AllInodes == 1..directory.inode_ctr

\* The first entry built (a file in both sources), the entry that was given an
\* inode last (a directory, or the file create added), and the counter itself.
SomeInodes == {2, directory.inode_ctr - 1, directory.inode_ctr}

\* As many reads as fill the channel and suspend one more send.
FillReads == ChanCap + 1

\* As many reads as fill the channel, the worker's output stream and the
\* suspended send, and some more.
PipeReads == ChanCap + OutCap + 4

\* The whole system, every message and every request, on the spec's scenario
\* directory.
Next ==
    \/ Mount(BOOLEAN, MaxMounts)
    \/ MountDone({"/srv/a"}, BOOLEAN)
    \/ UnmountPressed
    \/ JoinReturn
    \/ ReceivedEvent
    \/ InitEventCommunication
    \/ WorkerStart
    \/ WorkerLock
    \/ WorkerRecv
    \/ WorkerForward
    \/ ReadRequest({2}, {<<0, 2>>}, PipeReads)
    \/ SendComplete
    \/ DetachedSend
    \/ CreateRequest({1}, {"new"}, 1)

Spec == Init /\ [][Next]_vars

\* The system through one mount: no session handle is dropped, so no send is
\* ever left in a detached session.
OneMount(sources, parents, names, maxCreates, inos, args, maxReads) ==
    \/ Mount({TRUE}, 1)
    \/ MountDone(sources, {TRUE})
    \/ UnmountPressed
    \/ JoinReturn
    \/ ReceivedEvent
    \/ InitEventCommunication
    \/ WorkerStart
    \/ WorkerLock
    \/ WorkerRecv
    \/ WorkerForward
    \/ ReadRequest(inos, args, maxReads)
    \/ SendComplete
    \/ CreateRequest(parents, names, maxCreates)

\* The trees vary: both sources, creates under every inode.
TreeNext == OneMount(SourceDirs, AllInodes, CreateNames, MaxCreates, {2}, {<<0, 2>>}, FillReads)

TreeSpec == Init /\ [][TreeNext]_vars

\* The reads vary: every kind of entry, every kind of range.
ReadNext == OneMount({"/srv/a"}, {1}, {"new"}, 1, SomeInodes, ReadArgs, MaxReads)

ReadSpec == Init /\ [][ReadNext]_vars

\* The threads the operating system and the async executor keep running: the
\* session thread, the worker, and the thread that runs update once a message
\* is queued for it or its join can return. Requests and button presses are
\* the environment's and come or not.
Fairness ==
    /\ WF_vars(SendComplete)
    /\ WF_vars(DetachedSend)
    /\ WF_vars(JoinReturn)
    /\ WF_vars(ReceivedEvent)
    /\ WF_vars(InitEventCommunication)
    /\ WF_vars(WorkerStart)
    /\ WF_vars(WorkerLock)
    /\ WF_vars(WorkerRecv)
    /\ WF_vars(WorkerForward)
    /\ WF_vars(MountDone({"/srv/a"}, BOOLEAN))

FairSpec == Spec /\ Fairness

\* The (offset, data) pairs of the writes: two bytes at the start, nothing at 1.
WriteArgs == {<<0, <<7, 8>>>>, <<1, <<>>>>}

WriteRequest(inos, args) ==
    /\ mounted
    /\ \E ino \in inos, a \in args : write(ino, a[1], a[2])

\* One mount of the scenario directory with reads, a create and writes.
WriteNext ==
    \/ OneMount({"/srv/a"}, {1}, {"new"}, 1, {2}, {<<0, 2>>}, FillReads)
    \/ WriteRequest(SomeInodes, WriteArgs)

WriteSpec == Init /\ [][WriteNext]_vars

\* The names lookup is asked for: one a source has in another case, the two
\* create uses, one that is not UTF-8.
LookupNames == {"a.txt", "new", "NEW", NonUtf8}

\* The offsets readdir is resumed from: up to the length of the longest
\* listing (two dots, two children, the created entries), and one past it.
ReaddirOffsets == 0..(MaxCreates + 5)

\* The items the reply sink takes: one, or more than any listing has.
SinkRooms == {1, MaxCreates + 5}

\* The root, a directory below it in either source (sub is 4, e is 3, the
\* other number being a file there), and the counter: no entry, or, past a
\* create, the file it made.
ListInodes == {1, 3, 4, directory.inode_ctr - 1, directory.inode_ctr}

LookupRequest(parents, names) ==
    /\ mounted
    /\ \E parent \in parents, name \in names : lookup(parent, name)

ReaddirRequest(inos, offsets, rooms) ==
    /\ mounted
    /\ \E ino \in inos, offset \in offsets, room \in rooms : readdir(ino, offset, room)

\* One mount of either source, with creates, lookups and listings.
ListNext ==
    \/ Mount({TRUE}, 1)
    \/ MountDone(SourceDirs, {TRUE})
    \/ UnmountPressed
    \/ JoinReturn
    \/ CreateRequest(ListInodes, {"new", "NEW"}, MaxCreates)
    \/ LookupRequest(ListInodes, LookupNames)
    \/ ReaddirRequest(ListInodes, ReaddirOffsets, SinkRooms)

ListSpec == Init /\ [][ListNext]_vars

\* As many reads as leave an event with the worker, fill the channel and
\* suspend a send, and one more.
DetachReads == ChanCap + 3

\* One mount of the scenario directory whose event consumer may go away.
DetachNext ==
    \/ OneMount({"/srv/a"}, {1}, {"new"}, 1, {2, directory.inode_ctr}, {<<0, 2>>, <<2, BufCap>>},
                DetachReads)
    \/ ReceiverDropped

DetachSpec == Init /\ [][DetachNext]_vars

\* The items the reply sink takes in a paginated listing.
PageRooms == {1, 2, 3}

\* One mount of the scenario directory, listed page by page from any offset,
\* with creates in between: the root, the file a.txt (2) and the directory
\* sub (4) are listed, the two directories are created in.
PageNext ==
    \/ Mount({TRUE}, 1)
    \/ MountDone({"/srv/a"}, {TRUE})
    \/ UnmountPressed
    \/ JoinReturn
    \/ CreateRequest({1, 4}, {"new"}, MaxCreates)
    \/ ReaddirRequest({1, 2, 4}, ReaddirOffsets, PageRooms)

PageSpec == Init /\ [][PageNext]_vars

GetattrRequest(inos) ==
    /\ mounted
    /\ \E ino \in inos : getattr(ino)

ReleaseRequest(inos) ==
    /\ mounted
    /\ \E ino \in inos : release(ino)

\* One mount of the scenario directory with reads and a create, and with the
\* four requests that only look: on the root, on the file a.txt, and on the
\* counter (no entry, or, past the create, the file it made is one below).
FrameNext ==
    \/ OneMount({"/srv/a"}, {1}, {"new"}, 1, {2}, {<<0, 2>>}, FillReads)
    \/ LookupRequest({1, 2}, {"a.txt", "new"})
    \/ GetattrRequest({1, directory.inode_ctr - 1, directory.inode_ctr})
    \/ ReaddirRequest({1, 2}, {0, 3}, {2})
    \/ ReleaseRequest({2, directory.inode_ctr})

FrameSpec == Init /\ [][FrameNext]_vars

(* ---- what the claims speak of ---- *)
\* The events handed to the channel and not yet received: the queued ones,
\* then the one of the suspended send.
Queued == chan \o pending

\* The events from the log back to the channel, in the order they travel.
RECURSIVE events_of(_)
events_of(msgs) ==
    IF msgs = <<>> THEN <<>>
    ELSE (IF Head(msgs).type = "ReceivedEvent" THEN <<Head(msgs).event>> ELSE <<>>)
         \o events_of(Tail(msgs))

Pipeline == event_log \o events_of(outQ) \o held \o chan

\* The bytes behind an entry: the backing file's, or the in-memory buffer.
content_of(entry) ==
    IF entry.full_path.kind = "Memory" THEN entry.full_path.data
    ELSE LET node == disk_at(entry.full_path.path)
         IN  IF node = None THEN <<>> ELSE node[1].bytes

\* The entry the last request's inode resolves to (None when it does not).
Target == find_ino(directory.root, reply.ino)

\* A step in which the session thread took a read of a resolved inode.
ResolvedRead == clock' # clock

\* A step in which the session thread took a create.
CreateStep == reply'.op = "create" /\ (reply' # reply \/ directory' # directory)

inodes_of(root) == {e.inode : e \in {all_entries(root)[i] : i \in 1..Len(all_entries(root))}}

\* What an entry is, apart from what its children are: its own fields and the
\* inodes of its children, in order.
shape(entry) ==
    [name |-> entry.name, full_path |-> entry.full_path, inode |-> entry.inode,
     kind |-> entry.info.kind, size |-> entry.info.size,
     kids |-> [i \in 1..Len(entry.info.entries) |-> entry.info.entries[i].inode]]

(* ---- C1 ---- *)
\* C1: a read of a resolved inode whose data access succeeds replies with
\* exactly the bytes of the entry from the offset on, at most `size` of them
\* and none at or past the end, and hands the channel exactly one event with
\* the entry's name and the requested offset and size.
C1_ReadRepliesBytesAndEmits ==
    [][ (ResolvedRead /\ reply'.res = "data") =>
          LET entry == find_ino(directory.root, reply'.ino)[1]
              bytes == content_of(entry)
              n == IF reply'.offset >= Len(bytes) THEN 0
                   ELSE Min(reply'.size, Len(bytes) - reply'.offset)
          IN  /\ Len(reply'.data) = n
              /\ \A i \in 1..n : reply'.data[i] = bytes[reply'.offset + i]
              /\ Queued' = Append(Queued, ReadEvent(clock, entry.name, reply'.offset,
                                                    reply'.size))
              /\ UNCHANGED <<detached, event_log, outQ, held>> ]_vars

\* A short read (fewer bytes than asked for, more than none) whose event, with
\* the requested size, is the last in the channel.
C1_Witness ==
    /\ reply.op = "read" /\ reply.res = "data"
    /\ Len(reply.data) > 0 /\ Len(reply.data) < reply.size
    /\ chan # <<>>
    /\ chan[Len(chan)] = ReadEvent(clock - 1, "a.txt", reply.offset, reply.size)

(* ---- C2 ---- *)
\* C2 as stated: when the Data Accessor fails on a resolved inode the handler
\* replies with an error and no event is handed to the channel.
C2_NoEventOnFailure ==
    [][ (ResolvedRead /\ reply'.res = "error") => Queued' = Queued ]_vars

\* C2 amended: when the Data Accessor fails on a resolved inode the handler
\* replies with the error ENOENT and still hands the channel exactly one event
\* with the entry's name and the requested offset and size.
C2_EventOnFailure ==
    [][ (ResolvedRead /\ reply'.res = "error") =>
          LET entry == find_ino(directory.root, reply'.ino)[1]
          IN  /\ reply'.errno = "ENOENT"
              /\ reply'.data = <<>>
              /\ Queued' = Append(Queued, ReadEvent(clock, entry.name, reply'.offset,
                                                    reply'.size)) ]_vars

\* A read of a directory failed and its event is the last in the channel.
C2_Witness ==
    /\ reply.op = "read" /\ reply.res = "error"
    /\ fsPc = "idle"
    /\ Target # None
    /\ is_dir(Target[1].info)
    /\ chan # <<>>
    /\ chan[Len(chan)] = ReadEvent(clock - 1, Target[1].name, reply.offset, reply.size)

(* ---- C3 ---- *)
\* C3: in every tree a session serves no two entries have the same inode, and
\* the root is the only entry with inode 1.
C3_InodesUnique ==
    fsPc # "none" =>
        LET es == all_entries(directory.root)
        IN  /\ \A i, j \in 1..Len(es) : i # j => es[i].inode # es[j].inode
            /\ \A i \in 1..Len(es) : (es[i].inode = 1) <=> (i = 1)

\* A tree with two created entries, one of them inside a subdirectory.
C3_Witness ==
    /\ fsPc # "none"
    /\ created(directory) >= 2
    /\ \E i \in 1..Len(directory.root.info.entries) :
           LET d == directory.root.info.entries[i]
           IN  /\ is_dir(d.info)
               /\ \E j \in 1..Len(d.info.entries) :
                      d.info.entries[j].full_path.kind = "Memory"

(* ---- C4 ---- *)
\* C4: a read of a resolved inode that asks for more than the buffer holds is
\* served without fault and answered with at most the buffer's capacity.
C4_OversizedReadServed ==
    (reply.op = "read" /\ reply.size > BufCap /\ Target # None) =>
        (reply.res \in {"data", "error"} /\ Len(reply.data) <= BufCap)

(* ---- C5 ---- *)
\* C5: a read of an entry made by create, whatever the offset and the size
\* (here: sizes the buffer holds), returns zero bytes and does not fault.
C5_CreatedEntryReadsEmpty ==
    (reply.op = "read" /\ reply.size <= BufCap /\ Target # None
        /\ Target[1].full_path.kind = "Memory") =>
        (reply.res = "data" /\ reply.data = <<>>)

C7_Backpressure ==
    [][ /\ Len(chan') <= ChanCap
        /\ (fsPc # "sending" /\ fsPc' = "sending") =>
               /\ Len(chan) = ChanCap
               /\ chan' = chan
               /\ reply'.op = "read"
               /\ pending' # None
        /\ (fsPc = "sending" /\ fsPc' = "sending") => pending' = pending
        /\ (fsPc = "sending" /\ fsPc' # "sending") =>
               \/ chan' = Append(chan, pending[1]) /\ detached' = detached
               \/ chan' = chan /\ detached' = detached \cup {pending[1]}
        /\ \A e \in detached : e \notin detached' => chan' = Append(chan, e)
        /\ (pending' # None) <=> (fsPc' = "sending") ]_vars

\* A read handler is suspended in its send on a full channel.
C7_Witness ==
    /\ fsPc = "sending"
    /\ reply.op = "read"
    /\ Len(chan) = ChanCap
    /\ pending # None

(* ---- C8 ---- *)
\* C8: whenever UnmountPressed is handled while the status is Mounted, the
\* join eventually returns and the status becomes Unmounted.
C8_UnmountTerminates ==
    (uiPc = "joining") ~> (uiPc = "idle" /\ status = "Unmounted")

(* ---- C9 ---- *)
\* What C9 says a create under a directory does.
CreateAppends ==
    LET parent == find_ino(directory.root, reply'.ino)[1]
        after == find_ino(directory'.root, reply'.ino)[1]
        n == directory.inode_ctr
        new == Entry(reply'.name, Memory(<<>>), n, InfoFile(0))
    IN  /\ reply'.res = "created"
        /\ after.info.entries = Append(parent.info.entries, new)
        /\ n \notin inodes_of(directory.root)
        /\ directory'.inode_ctr = n + 1
        /\ inodes_of(directory'.root) = inodes_of(directory.root) \cup {n}
        /\ Len(all_entries(directory'.root)) = Len(all_entries(directory.root)) + 1
        /\ \A x \in inodes_of(directory.root) \ {reply'.ino} :
               shape(find_ino(directory'.root, x)[1]) = shape(find_ino(directory.root, x)[1])
        /\ shape(after) = [shape(parent) EXCEPT !.kids = Append(@, n)]
        /\ reply'.attr = Some([ino |-> n, size |-> 0, blocks |-> 1, kind |-> "RegularFile",
                               nlink |-> 1, uid |-> 333, gid |-> 333])

ParentIsDirectory ==
    /\ find_ino(directory.root, reply'.ino) # None
    /\ is_dir(find_ino(directory.root, reply'.ino)[1].info)

\* C9 as stated: a create whose parent resolves to a Directory appends one
\* new empty File as the last child, with an inode no entry had, advances the
\* counter, leaves everything else as it was and replies with its attributes.
C9_CreateAppendsAlways ==
    [][ (CreateStep /\ ParentIsDirectory) => CreateAppends ]_vars

\* C9 amended: the same, for a create whose name is valid UTF-8.
C9_CreateAppends ==
    [][ (CreateStep /\ ParentIsDirectory /\ to_str(reply'.name) # None)
            => CreateAppends ]_vars

\* A create under a subdirectory that already had a child.
C9_Witness ==
    /\ reply.op = "create" /\ reply.res = "created"
    /\ reply.ino # 1
    /\ Target # None
    /\ Len(Target[1].info.entries) >= 2
    /\ Target[1].info.entries[Len(Target[1].info.entries)].inode = directory.inode_ctr - 1

(* ---- C10 ---- *)
\* C10: a create whose parent resolves to a File or to no entry replies
\* ENOENT and leaves the tree, the counter and the event channel as they were.
C10_CreateRejected ==
    [][ (CreateStep /\ ~ParentIsDirectory) =>
            /\ reply'.res = "error"
            /\ reply'.errno = "ENOENT"
            /\ UNCHANGED <<directory, chan, pending, detached, rxOpen, clock>> ]_vars

\* A create with a valid name under a File was rejected.
C10_Witness ==
    /\ reply.op = "create" /\ reply.res = "error" /\ reply.errno = "ENOENT"
    /\ to_str(reply.name) # None
    /\ Target # None
    /\ is_file(Target[1].info)

(* ---- C11 ---- *)
\* C11: every write request is answered with a success reply.
C11_WriteAnswered ==
    reply.op = "write" => reply.res = "written"

(* ---- C12 ---- *)
\* A step in which the session thread took a write.
WriteStep == reply'.op = "write" /\ (reply' # reply \/ directory' # directory)

\* C12: a write leaves the tree (every entry's size, content, kind, name and
\* inode), the inode counter and the event channel as they were, and every
\* entry made by create still has no content and reports size 0 after it.
C12_WriteChangesNothing ==
    [][ WriteStep =>
          /\ UNCHANGED <<directory, chan, pending, detached, rxOpen, clock, fsPc>>
          /\ \A e \in {all_entries(directory'.root)[i] :
                          i \in 1..Len(all_entries(directory'.root))} :
                 e.full_path.kind = "Memory" =>
                     /\ get_fileattr(e).size = 0
                     /\ e.full_path.data = <<>> ]_vars

\* Two bytes were written to the file create made, while an event is queued.
C12_Witness ==
    /\ reply.op = "write"
    /\ reply.size = 2
    /\ Target # None
    /\ Target[1].full_path.kind = "Memory"
    /\ get_fileattr(Target[1]).size = 0
    /\ chan # <<>>

(* ---- C13 ---- *)
\* C13: readdir of a Directory from offset k, 0 <= k <= the listing's length,
\* into a sink with room for the whole listing replies with exactly the items
\* k, k+1, ... of the listing ".", "..", then the children in stored order
\* with their own inode and kind (none when k is the length); readdir of a
\* File or of an absent inode replies ENOENT.
C13_ReaddirSuffix ==
    reply.op = "readdir" =>
        IF Target # None /\ is_dir(Target[1].info)
        THEN LET kids == Target[1].info.entries
                 n == Len(kids) + 2
                 k == reply.offset
             IN  (reply.size >= n /\ k \in 0..n) =>
                     /\ reply.res = "ok"
                     /\ Len(reply.data) = n - k
                     /\ \A j \in 1..(n - k) :
                            LET idx == k + j
                                it == reply.data[j]
                            IN  IF idx = 1 THEN it.name = "." /\ it.kind = "Directory"
                                ELSE IF idx = 2 THEN it.name = ".." /\ it.kind = "Directory"
                                ELSE /\ it.name = kids[idx - 2].name
                                     /\ it.ino = kids[idx - 2].inode
                                     /\ it.kind = (IF kids[idx - 2].info.kind = "Directory"
                                                   THEN "Directory" ELSE "RegularFile")
        ELSE reply.res = "error" /\ reply.errno = "ENOENT"

\* A listing resumed inside the children of a directory that has a subdirectory
\* and a created file: the reply starts at the second child.
C13_Witness ==
    /\ reply.op = "readdir" /\ reply.res = "ok"
    /\ reply.offset = 3
    /\ Len(reply.data) >= 2
    /\ reply.data[1].kind = "Directory"
    /\ reply.data[Len(reply.data)].ino = directory.inode_ctr - 1

(* ---- C14 ---- *)
\* C14: a read whose Data Accessor fails on a resolved inode is answered with
\* the generic I/O error, not with the not-found error of an absent inode.
C14_IoErrorReported ==
    (reply.op = "read" /\ reply.res = "error" /\ Target # None) =>
        (reply.errno = "EIO" /\ reply.errno # "ENOENT")

(* ---- C15 ---- *)
\* The reads whose event is nowhere between the channel and the log.
Lost ==
    Cardinality({t \in 0..(clock - 1) :
                    \A i \in 1..Len(Pipeline \o pending) : (Pipeline \o pending)[i].time # t})

\* C15: with the receiving side of the channel closed, a read of a resolved
\* inode replies as it does with a consumer attached (the bytes of the entry
\* from the offset on, or the error of the Data Accessor), queues nothing, is
\* not suspended, and leaves the tree as it was; a send that was suspended
\* when the receiver went away returns without queuing anything.
C15_ClosedReceiverTolerated ==
    [][ /\ (ResolvedRead /\ ~rxOpen) =>
              /\ fsPc' # "sending"
              /\ UNCHANGED <<directory, chan, pending, detached, rxOpen>>
              /\ reply'.res \in {"data", "error"} => fsPc' = "idle"
              /\ reply'.res = "error" => reply'.errno = "ENOENT"
              /\ reply'.res = "data" =>
                    LET bytes == content_of(find_ino(directory.root, reply'.ino)[1])
                        n == IF reply'.offset >= Len(bytes) THEN 0
                             ELSE Min(reply'.size, Len(bytes) - reply'.offset)
                    IN  /\ Len(reply'.data) = n
                        /\ \A i \in 1..n : reply'.data[i] = bytes[reply'.offset + i]
        /\ (fsPc = "sending" /\ ~rxOpen /\ fsPc' # "sending") =>
              /\ fsPc' = "idle"
              /\ UNCHANGED <<directory, chan, reply>> ]_vars

\* A read was answered with bytes after the receiver had gone: more events
\* are missing than the receiver's end discarded (the channel's, the worker's,
\* the suspended send's).
C15_Witness ==
    /\ ~rxOpen
    /\ reply.op = "read" /\ reply.res = "data" /\ reply.data # <<>>
    /\ fsPc = "idle"
    /\ Lost >= ChanCap + 3

(* ---- C16 ---- *)
\* C16: every handle a successful mount returned is either still held by the
\* Mounted status or has been joined; none was dropped without a join.
C16_HandleReleasedOnce ==
    \A i \in 1..Len(handles) :
        /\ handles[i] \in {"held", "joined"}
        /\ handles[i] = "held" => (process = i \/ uiPc = "joining")

(* ---- C17 ---- *)
\* C17: UnmountPressed handled while the status is not Mounted joins no
\* session, records an error text, ends with the status Unmounted, and leaves
\* the sessions, the tree and the event channel as they were.
C17_UnmountWhenNotMounted ==
    [][ (UnmountPressed /\ status # "Mounted") =>
          /\ status' = "Unmounted"
          /\ uiPc' = "idle"
          /\ error_text' = Some("Somehow unmount was pressed")
          /\ UNCHANGED <<handles, process, event_log, fsVars, chanVars, pipeVars>> ]_vars

\* Unmount was pressed with nothing mounted, after a session had been mounted
\* and joined.
C17_Witness ==
    /\ status = "Unmounted"
    /\ uiPc = "idle"
    /\ error_text = Some("Somehow unmount was pressed")
    /\ Len(handles) >= 1
    /\ \A i \in 1..Len(handles) : handles[i] = "joined"

(* ---- C18 ---- *)
\* C18: lookup(parent, name) replies with the attributes of the first child
\* of the entry the parent inode resolves to, in stored order, whose name
\* equals the requested one ignoring case; it replies ENOENT when the parent
\* inode is absent, when it is a File, or when no child matches.
C18_LookupFirstMatch ==
    reply.op = "lookup" =>
        LET kids == IF Target # None /\ Target[1].info.kind = "Directory"
                    THEN Target[1].info.entries ELSE <<>>
            hits == {i \in 1..Len(kids) :
                        to_lowercase(kids[i].name) = to_lowercase(reply.name)}
        IN  IF hits = {}
            THEN reply.res = "error" /\ reply.errno = "ENOENT"
            ELSE LET first == CHOOSE i \in hits : \A j \in hits : i <= j
                 IN  /\ reply.res = "entry"
                     /\ reply.attr = Some(get_fileattr(kids[first]))
                     /\ reply.attr[1].ino = kids[first].inode

\* A lookup found a child whose name is spelled in another case, the first of
\* two children whose names differ in case only.
C18_Witness ==
    /\ reply.op = "lookup" /\ reply.res = "entry"
    /\ Target # None
    /\ \E i, j \in 1..Len(Target[1].info.entries) :
          /\ i < j
          /\ Target[1].info.entries[i].name # reply.name
          /\ Target[1].info.entries[j].name = reply.name
          /\ reply.attr[1].ino = Target[1].info.entries[i].inode

(* ---- C19 ---- *)
\* C19: in every tree a session serves, the read-only resolver gives the root
\* for inode 1, and the root is a Directory whose stored inode is 1.
C19_RootIsInodeOne ==
    fsPc # "none" =>
        /\ find_ino(directory.root, 1) = Some(directory.root)
        /\ directory.root.info.kind = "Directory"
        /\ directory.root.inode = 1

\* A tree whose root has been given a child by create.
C19_Witness ==
    /\ fsPc # "none"
    /\ reply.op = "create" /\ reply.res = "created" /\ reply.ino = 1
    /\ Len(directory.root.info.entries) >= 3

(* ---- C20 ---- *)
\* C20: on every tree a session serves and for every inode number, from 0 to
\* past the counter, find_ino and find_ino_mut give the same entry or both
\* give none.
C20_ResolversAgree ==
    fsPc # "none" =>
        \A ino \in 0..(directory.inode_ctr + 1) :
            LET ro == find_ino(directory.root, ino)
                mu == find_ino_mut(directory.root, ino)
            IN  IF ro = None THEN mu = None
                ELSE mu # None /\ entry_at(directory.root, mu[1], 1) = ro[1]

\* A tree where the two searches take different ways to an entry: a file of
\* the root that comes after a subdirectory with entries of its own, one of
\* them made by create.
C20_Witness ==
    /\ fsPc # "none"
    /\ \E i, j \in 1..Len(directory.root.info.entries) :
          /\ i < j
          /\ is_dir(directory.root.info.entries[i].info)
          /\ \E k \in 1..Len(directory.root.info.entries[i].info.entries) :
                 directory.root.info.entries[i].info.entries[k].full_path.kind = "Memory"
          /\ is_file(directory.root.info.entries[j].info)
          /\ find_ino_mut(directory.root, directory.root.info.entries[j].inode) = Some(<<j>>)

(* ---- C21 ---- *)
\* The logical listing of a directory: ".", "..", then the children in stored
\* order, each with its inode and kind (the dots as directories).
Listing(entry) ==
    << [name |-> ".", kind |-> "Directory", ino |-> 0],
       [name |-> "..", kind |-> "Directory", ino |-> 0] >>
    \o [i \in 1..Len(entry.info.entries) |->
           [name |-> entry.info.entries[i].name,
            kind |-> IF entry.info.entries[i].info.kind = "Directory"
                     THEN "Directory" ELSE "RegularFile",
            ino |-> entry.info.entries[i].inode]]

\* The item a reply carries is the idx-th item (counted from 1) of a listing.
IsItem(it, list, idx) ==
    /\ it.name = list[idx].name
    /\ it.kind = list[idx].kind
    /\ idx > 2 => it.ino = list[idx].ino

\* What a reader gets that lists `entry` page by page into a sink of `room`
\* items, from `offset` on, resuming from the next-offset of the last item it
\* was given, until a page comes back empty (`calls` bounds the pages).
RECURSIVE Paginate(_, _, _, _)
Paginate(entry, offset, room, calls) ==
    LET page == readdir_fill(readdir_entries(entry.info.entries), skip(offset), <<>>, room)
    IN  IF page = <<>> \/ calls = 0 THEN <<>>
        ELSE page \o Paginate(entry, page[Len(page)].offset, room, calls - 1)

\* Every paginated listing of every directory of the tree, for every room of
\* at least one item, is the logical listing, each item once, in order, the
\* i-th tagged i.
PaginationComplete ==
    \A e \in {all_entries(directory.root)[i] : i \in 1..Len(all_entries(directory.root))} :
        is_dir(e.info) =>
            \A room \in 1..(Len(Listing(e)) + 1) :
                LET got == Paginate(e, 0, room, Len(Listing(e)) + 1)
                IN  /\ Len(got) = Len(Listing(e))
                    /\ \A i \in 1..Len(got) :
                           IsItem(got[i], Listing(e), i) /\ got[i].offset = i

\* A readdir call that resumes the listing the last reply left off.
ResumedCall ==
    /\ reply.op = "readdir" /\ reply.res = "ok" /\ reply.data # <<>>
    /\ reply'.op = "readdir" /\ reply'.ino = reply.ino
    /\ reply'.offset = reply.data[Len(reply.data)].offset
    /\ directory' = directory

\* C21: listing a Directory page by page into a sink of any room of at least
\* one item, from offset 0 and resuming from the next-offset of the last item
\* accepted, gives every item of the logical listing once and in order, each
\* tagged with its index plus 1; the call that resumes after a full sink
\* starts with the item that was rejected.
\* (The listings of a tree are looked at in the step that ends the tree: a
\* create, or the end of the session, which every tree comes to.)
C21_PaginationComplete ==
    [][ /\ (fsPc # "none" /\ directory' # directory) => PaginationComplete
        /\ ResumedCall =>
              LET list == Listing(find_ino(directory.root, reply.ino)[1])
                  n == Len(list)
                  k == reply.offset + Len(reply.data)
                  len == Min(reply'.size, n - k)
              IN  /\ reply'.offset = k
                  /\ reply'.res = "ok"
                  /\ Len(reply'.data) = len
                  /\ \A j \in 1..len :
                         /\ IsItem(reply'.data[j], list, k + j)
                         /\ reply'.data[j].offset = k + j ]_vars

\* A page of two items was taken from the middle of the root's listing, which
\* has a created entry, and the sink was full before the listing's end.
C21_Witness ==
    /\ reply.op = "readdir" /\ reply.res = "ok"
    /\ reply.ino = 1
    /\ reply.size = 2
    /\ reply.offset = 2
    /\ Len(reply.data) = 2
    /\ reply.data[2].offset = 4
    /\ Len(Target[1].info.entries) >= 3
    /\ Target[1].info.entries[3].full_path.kind = "Memory"

(* ---- C22 ---- *)
\* The inodes of the directories of a tree.
dir_inodes(root) ==
    {e.inode : e \in {x \in {all_entries(root)[i] : i \in 1..Len(all_entries(root))} :
                         is_dir(x.info)}}

\* The page readdir gives of a directory from offset k into a sink of `room`.
Page(entry, k, room) ==
    readdir_fill(readdir_entries(entry.info.entries), skip(k), <<>>, room)

\* C22: while a session lives, a step that changes the tree removes no entry
\* and leaves every directory's listing as a prefix of its new listing, so
\* every child keeps its index; a readdir resumed at any offset of the old
\* listing gives in the new tree, item for item, what it gives in the old
\* one, followed at most by entries that did not exist before.
C22_ListingStable ==
    [][ (fsPc # "none" /\ fsPc' # "none" /\ directory' # directory) =>
          /\ inodes_of(directory.root) \subseteq inodes_of(directory'.root)
          /\ \A x \in dir_inodes(directory.root) :
                LET old == find_ino(directory.root, x)[1]
                    new == find_ino(directory'.root, x)
                IN  /\ new # None
                    /\ is_dir(new[1].info)
                    /\ Len(Listing(new[1])) >= Len(Listing(old))
                    /\ SubSeq(Listing(new[1]), 1, Len(Listing(old))) = Listing(old)
                    /\ \A k \in 0..Len(Listing(old)), room \in PageRooms :
                          LET was == Page(old, k, room)
                              now == Page(new[1], k, room)
                          IN  /\ Len(now) >= Len(was)
                              /\ SubSeq(now, 1, Len(was)) = was
                              /\ \A j \in (Len(was) + 1)..Len(now) :
                                     now[j].ino \notin inodes_of(directory.root) ]_vars

\* A readdir of the root resumed past the two children the source had gives
\* the entry create made since, and the two are where they were.
C22_Witness ==
    /\ reply.op = "readdir" /\ reply.res = "ok"
    /\ reply.ino = 1
    /\ reply.offset = 4
    /\ Len(reply.data) = 1
    /\ reply.data[1].offset = 5
    /\ reply.data[1].ino = directory.root.info.entries[3].inode
    /\ directory.root.info.entries[3].full_path.kind = "Memory"
    /\ directory.root.info.entries[1].name = "a.txt"
    /\ directory.root.info.entries[2].name = "sub"

(* ---- C23 ---- *)
\* A step in which the session thread took one of the requests that only look.
LookStep ==
    /\ reply'.op \in {"lookup", "getattr", "readdir", "release"}
    /\ (reply'.op # reply.op \/ reply' # reply)

\* C23: lookup, getattr, readdir and release leave the tree, the inode
\* counter and the event channel as they were; within a session only a read
\* hands the channel an event and only a create changes the tree; and what
\* getattr answers is the attributes of the entry its inode resolves to in the
\* tree as it is, so a second getattr with no create in between answers the
\* same.
C23_LookingChangesNothing ==
    [][ /\ LookStep =>
              UNCHANGED <<directory, chan, pending, detached, rxOpen, clock, fsPc, mounted>>
        /\ (Len(Queued') > Len(Queued)) => (reply'.op = "read" /\ ResolvedRead)
        /\ (fsPc # "none" /\ fsPc' # "none" /\ directory' # directory) =>
              (reply'.op = "create" /\ reply'.res = "created")
        /\ reply'.op = "getattr" =>
              LET e == find_ino(directory'.root, reply'.ino)
              IN  IF e = None THEN reply'.res = "error" /\ reply'.errno = "ENOENT"
                  ELSE reply'.res = "attr" /\ reply'.attr = Some(get_fileattr(e[1]))
        /\ (reply.op = "getattr" /\ reply'.op = "getattr" /\ reply'.ino = reply.ino) =>
              reply'.attr = reply.attr ]_vars

\* getattr answered for the file create made, with size 0, while an event of
\* a read is queued.
C23_Witness ==
    /\ reply.op = "getattr" /\ reply.res = "attr"
    /\ reply.attr[1].kind = "RegularFile" /\ reply.attr[1].size = 0
    /\ Target # None
    /\ Target[1].full_path.kind = "Memory"
    /\ chan # <<>>
    /\ clock >= 1

(* ---- C24 ---- *)
\* The inode lookup is to give for `name` under the directory `parent`, after
\* a create has made `made` its last child: the earliest child that had a
\* name equal to it ignoring case before, or else the child just made.
Resolves(parent, name, made) ==
    LET kids == parent.info.entries
        before == {i \in 1..(Len(kids) - 1) :
                      to_lowercase(kids[i].name) = to_lowercase(name)}
    IN  IF before = {} THEN made
        ELSE kids[CHOOSE i \in before : \A j \in before : i <= j].inode

\* C24: once create(parent, name) has succeeded, the name resolves under the
\* parent, and the lookup(parent, name) that follows succeeds: with the inode
\* of the entry just made when no child of the parent had a name equal to it
\* ignoring case, and with the inode of the earliest such child otherwise.
C24_CreateThenLookup ==
    [][ /\ (CreateStep /\ reply'.res = "created") =>
              LET parent == find_ino(directory'.root, reply'.ino)[1]
                  found == find_name(parent, to_str(reply'.name)[1])
              IN  /\ found # None
                  /\ found[1].inode = Resolves(parent, reply'.name, directory.inode_ctr)
        /\ (/\ reply.op = "create" /\ reply.res = "created"
            /\ reply'.op = "lookup"
            /\ reply'.ino = reply.ino /\ reply'.name = reply.name) =>
              /\ directory' = directory
              /\ reply'.res = "entry"
              /\ reply'.attr # None
              /\ reply'.attr[1].ino =
                     Resolves(find_ino(directory.root, reply.ino)[1], reply.name,
                              reply.attr[1].ino) ]_vars

\* A lookup of the name of the child create made last gave an earlier child,
\* made by create too, whose name differs from it in case only.
C24_Witness ==
    /\ reply.op = "lookup" /\ reply.res = "entry"
    /\ Target # None
    /\ LET kids == Target[1].info.entries
       IN  /\ Len(kids) >= 2
           /\ kids[Len(kids)].name = reply.name
           /\ kids[Len(kids)].inode = directory.inode_ctr - 1
           /\ kids[Len(kids) - 1].full_path.kind = "Memory"
           /\ kids[Len(kids) - 1].name # reply.name
           /\ reply.attr[1].ino = kids[Len(kids) - 1].inode

====
